---------------------------- MODULE Spec2Model ----------------------------
(***************************************************************************)
(* Model of the Arduino Stepper library.  Two versions of the library are  *)
(* in the repository and both are modelled:                                *)
(*                                                                         *)
(*   lib = "pwm"  : src/src/Stepper.cpp  (2/4/5-wire, microstepping with   *)
(*                  PWM pins, off())                                       *)
(*   lib = "srm"  : src/unnamed/part_003 (2/3/4/5-wire, interruptible      *)
(*                  blocking loop: interrupt(), clear_interrupt())         *)
(*                                                                         *)
(* A Stepper object is one motor.  The sketches of the repository create   *)
(* it at file scope, so the members no constructor assigns (step_delay,    *)
(* micro_step_delay, micro_stepping, micro_step_number, the PWM pins,      *)
(* INTERRUPTED) start zero-initialized.                                    *)
(*                                                                         *)
(* Time: micros() and the unsigned long members are 32 bits wide in the    *)
(* code.  The model keeps the modular arithmetic and scales the modulus    *)
(* (ULongMod stands for 2^32); where the motor is stepped, setSpeed is    *)
(* only called with speeds whose quotient is below ULongMod in magnitude,  *)
(* so that every interval can elapse on the scaled clock.                  *)
(***************************************************************************)
EXTENDS Integers, Sequences, FiniteSets, TLC

\* ------------------------------------------------------------------ bounds
\* largest number_of_steps a motor is constructed with (main specification)
MaxSteps == 3
\* largest |steps_to_move| passed to step()
MaxMove == 2
\* modulus of unsigned long arithmetic (2^32 in the code)
ULongMod == 4
\* largest step interval (in microseconds) a positive speed is chosen for
MaxDelay == 2

\* --------------------------------------------------------- Arduino levels
LOW == 0
HIGH == 1
\* the platform's PWM range (analogWrite full scale)
PWMRANGE == 1023
\* the most negative int (int is 16 bits wide on the AVR boards)
INT_MIN == -32768

\* ------------------------------------------------------------------- pins
\* The pins of the board; pin 0 is the pin the constructors store in the
\* members they do not use, pins 6 and 7 are the PWM pins the sketch passes.
\* The sketch passes pins 1 .. 5 as the motor pins, in order.
PinIds == 0 .. 7
CtorPwmPins == <<6, 7>>

\* ----------------------------------------------------------- pure helpers
Abs(x) == IF x < 0 THEN -x ELSE x

\* abs() on an int: the macro negates a negative argument, and the negation
\* of INT_MIN overflows (undefined); in two's complement it yields INT_MIN
\* again (a build that traps instead: see StepOverflowTrap)
AbsInt(x) == IF x = INT_MIN THEN INT_MIN ELSE Abs(x)

\* C integer division: truncates toward zero
TruncDiv(a, b) ==
  IF (a >= 0) = (b > 0) THEN Abs(a) \div Abs(b) ELSE -(Abs(a) \div Abs(b))

\* conversion of a long to unsigned long: a long that is not negative is
\* below 2^31 and converts unchanged; a negative one wraps (x + 2^32 in the
\* code, x mod ULongMod here)
ToULong(x) == IF x >= 0 THEN x ELSE x % ULongMod

\* a - b in unsigned long arithmetic
ULongSub(a, b) == (a - b) % ULongMod

\* ----------------------------------------------------- microstepping tables
microstepping_1_2 ==
  << << <<0, 100>>, <<71, 71>> >>,
     << <<100, 0>>, <<71, -71>> >>,
     << <<0, -100>>, <<-71, -71>> >>,
     << <<-100, 0>>, <<-71, 71>> >> >>

microstepping_1_4 ==
  << << <<0, 100>>, <<38, 92>>, <<71, 71>>, <<92, 38>> >>,
     << <<100, 0>>, <<92, -38>>, <<71, -71>>, <<38, -92>> >>,
     << <<0, -100>>, <<-38, -92>>, <<-71, -71>>, <<-92, -38>> >>,
     << <<-100, 0>>, <<-92, 38>>, <<-71, 71>>, <<-38, 92>> >> >>

microstepping_1_8 ==
  << << <<0, 100>>, <<20, 98>>, <<38, 92>>, <<56, 83>>,
        <<71, 71>>, <<83, 56>>, <<92, 38>>, <<98, 20>> >>,
     << <<100, 0>>, <<98, -20>>, <<92, -38>>, <<83, -56>>,
        <<71, -71>>, <<56, -83>>, <<38, -92>>, <<20, -98>> >>,
     << <<0, -100>>, <<-20, -98>>, <<-38, -92>>, <<-56, -83>>,
        <<-71, -71>>, <<-83, -56>>, <<-92, -38>>, <<-98, -20>> >>,
     << <<-100, 0>>, <<-98, 20>>, <<-92, 38>>, <<-83, 56>>,
        <<-71, 71>>, <<-56, 83>>, <<-38, 92>>, <<-20, 98>> >> >>

\* mutant: two values of the second quadrant of the 1/4 table are exchanged
MicroTable_Typo(m) ==
  CASE m = 2 -> microstepping_1_2
    [] m = 4 -> [microstepping_1_4 EXCEPT ![2][2] = <<38, -92>>]
    [] m = 8 -> microstepping_1_8

MicroTable(m) ==
  CASE m = 2 -> microstepping_1_2
    [] m = 4 -> microstepping_1_4
    [] m = 8 -> microstepping_1_8

\* ------------------------------------------------------- full-step tables
\* the levels stepMotor writes to motor_pin_1 .. motor_pin_k for each case
\* of its switch, in case order 0, 1, ...
Rows2 == << <<LOW, HIGH>>, <<HIGH, HIGH>>, <<HIGH, LOW>>, <<LOW, LOW>> >>

\* mutant: steps 1 and 2 of the 3-wire table change places
Rows3_Swapped ==
  << <<LOW, LOW, HIGH>>, <<HIGH, LOW, LOW>>, <<HIGH, LOW, HIGH>>,
     <<HIGH, HIGH, LOW>>, <<LOW, HIGH, LOW>>, <<LOW, HIGH, HIGH>> >>

Rows3 ==
  << <<LOW, LOW, HIGH>>, <<HIGH, LOW, HIGH>>, <<HIGH, LOW, LOW>>,
     <<HIGH, HIGH, LOW>>, <<LOW, HIGH, LOW>>, <<LOW, HIGH, HIGH>> >>

\* mutant: step 1 of the 4-wire table drives both pins of the first pair
Rows4_BothHigh ==
  << <<HIGH, LOW, HIGH, LOW>>, <<HIGH, HIGH, HIGH, LOW>>,
     <<LOW, HIGH, LOW, HIGH>>, <<HIGH, LOW, LOW, HIGH>> >>

Rows4 ==
  << <<HIGH, LOW, HIGH, LOW>>, <<LOW, HIGH, HIGH, LOW>>,
     <<LOW, HIGH, LOW, HIGH>>, <<HIGH, LOW, LOW, HIGH>> >>

Rows5 ==
  << <<LOW, HIGH, HIGH, LOW, HIGH>>, <<LOW, HIGH, LOW, LOW, HIGH>>,
     <<LOW, HIGH, LOW, HIGH, HIGH>>, <<LOW, HIGH, LOW, HIGH, LOW>>,
     <<HIGH, HIGH, LOW, HIGH, LOW>>, <<HIGH, LOW, LOW, HIGH, LOW>>,
     <<HIGH, LOW, HIGH, HIGH, LOW>>, <<HIGH, LOW, HIGH, LOW, LOW>>,
     <<HIGH, LOW, HIGH, LOW, HIGH>>, <<LOW, LOW, HIGH, LOW, HIGH>> >>

\* ------------------------------------------------------------ pin writes
\* digitalWrite / analogWrite applied in program order to a pin map
RECURSIVE WriteAll(_, _)
WriteAll(p, ws) ==
  IF ws = << >> THEN p
  ELSE WriteAll([p EXCEPT ![ws[1][1]] = ws[1][2]], Tail(ws))

\* the table stepMotor switches over, by library version and pin_count
RowTable(l, pc) ==
  CASE pc = 2 -> Rows2
    [] pc = 3 /\ l = "srm" -> Rows3
    [] pc = 4 -> Rows4
    [] pc = 5 -> Rows5
    [] OTHER -> << >>

\* mutant: the levels of a row are written to the pins in reverse order
stepMotor_Reversed(l, pc, mp, thisStep) ==
  LET t == RowTable(l, pc) IN
  IF thisStep \in 0 .. Len(t) - 1
    THEN [i \in 1 .. pc |-> <<mp[i], t[thisStep + 1][pc + 1 - i]>>]
    ELSE << >>

\* stepMotor(thisStep): the digitalWrite calls it makes, in order
stepMotor(l, pc, mp, thisStep) ==
  LET t == RowTable(l, pc) IN
  IF thisStep \in 0 .. Len(t) - 1
    THEN [i \in 1 .. pc |-> <<mp[i], t[thisStep + 1][i]>>]
    ELSE << >>

\* mutant: step_number is passed to stepMotor as it is
RowIndex_NoMod(l, pc, sn) == sn

\* mutant: every topology is indexed modulo 4
RowIndex_Mod4(l, pc, sn) == sn % 4

\* the argument step() passes to stepMotor after a step
RowIndex(l, pc, sn) ==
  IF l = "srm"
    THEN CASE pc = 5 -> sn % 10
           [] pc = 3 -> sn % 6
           [] OTHER -> sn % 4
    ELSE IF pc = 5 THEN sn % 10 ELSE sn % 4

\* microStepMotor: <<coil1value, coil2value>> read from the table for m.
\* The arrays have 4 rows of m entries; a read outside them is out of bounds
\* (undefined) and is modelled as <<0, 0>>.
MicroEntry(m, this_step, this_micro_step) ==
  IF this_step \in 0 .. 3 /\ this_micro_step \in 0 .. m - 1
    THEN MicroTable(m)[this_step + 1][this_micro_step + 1]
    ELSE <<0, 0>>

\* mutant: the duty is computed from the signed coil value
microStepPwmWrites_Signed(m, pwm, this_step, this_micro_step) ==
  LET c == MicroEntry(m, this_step, this_micro_step) IN
  << <<pwm[1], (c[1] * PWMRANGE) \div 100>>,
     <<pwm[2], (c[2] * PWMRANGE) \div 100>> >>

\* microStepMotor: the two analogWrite calls
microStepPwmWrites(m, pwm, this_step, this_micro_step) ==
  LET c == MicroEntry(m, this_step, this_micro_step) IN
  << <<pwm[1], (Abs(c[1]) * PWMRANGE) \div 100>>,
     <<pwm[2], (Abs(c[2]) * PWMRANGE) \div 100>> >>

\* microStepMotor: the digitalWrite calls that follow
microStepPinWrites(m, pc, mp, this_step, this_micro_step) ==
  LET c == MicroEntry(m, this_step, this_micro_step) IN
  IF pc = 2 THEN
    << <<mp[1], IF c[1] > 0 THEN HIGH ELSE LOW>>,
       <<mp[2], IF c[2] > 0 THEN HIGH ELSE LOW>> >>
  ELSE IF pc = 4 THEN
    (IF c[1] > 0 THEN << <<mp[1], HIGH>>, <<mp[2], LOW>> >>
                 ELSE << <<mp[1], LOW>>, <<mp[2], HIGH>> >>)
    \o
    (IF c[2] > 0 THEN << <<mp[3], HIGH>>, <<mp[4], LOW>> >>
                 ELSE << <<mp[3], LOW>>, <<mp[4], HIGH>> >>)
  ELSE << >>

\* --------------------------------------------------------- position update
\* mutant: the forward wrap to 0 is missing
NextStepNumber_NoWrap(dir, sn, n) ==
  IF dir = 1 THEN sn + 1 ELSE (IF sn = 0 THEN n ELSE sn) - 1

\* full-step mode: step_number after one step in direction dir
NextStepNumber(dir, sn, n) ==
  IF dir = 1
    THEN (IF sn + 1 = n THEN 0 ELSE sn + 1)
    ELSE (IF sn = 0 THEN n ELSE sn) - 1

\* mutant: the forward wrap of micro_step_number comes one microstep late
NextMicroStep_LateWrap(dir, sn, mn, n, m) ==
  IF dir = 1
    THEN IF mn + 1 > m
           THEN <<(IF sn + 1 = n THEN 0 ELSE sn + 1), 0>>
           ELSE <<sn, mn + 1>>
    ELSE IF mn = 0
           THEN <<(IF sn = 0 THEN n ELSE sn) - 1, m - 1>>
           ELSE <<sn, mn - 1>>

\* mutant: a reverse microstep out of micro_step_number 0 does not take the
\* whole step back
NextMicroStep_NoBorrow(dir, sn, mn, n, m) ==
  IF dir = 1
    THEN IF mn + 1 = m
           THEN <<(IF sn + 1 = n THEN 0 ELSE sn + 1), 0>>
           ELSE <<sn, mn + 1>>
    ELSE IF mn = 0 THEN <<sn, m - 1>> ELSE <<sn, mn - 1>>

\* microstepping mode: <<step_number, micro_step_number>> after one microstep
NextMicroStep(dir, sn, mn, n, m) ==
  IF dir = 1
    THEN IF mn + 1 = m
           THEN <<(IF sn + 1 = n THEN 0 ELSE sn + 1), 0>>
           ELSE <<sn, mn + 1>>
    ELSE IF mn = 0
           THEN <<(IF sn = 0 THEN n ELSE sn) - 1, m - 1>>
           ELSE <<sn, mn - 1>>

\* ------------------------------------------------------------------ pacing
\* mutant: the interval is not compared
Due_NoInterval(now, last, delay) == ULongSub(now, last) >= 0

\* mutant: the times are compared as they are, without the wrap of
\* unsigned long
Due_Signed(now, last, delay) == now - last >= delay

\* the test "now - last_step_time >= delay" on unsigned longs
Due(now, last, delay) == ULongSub(now, last) >= delay

\* mutant: the microseconds of a second instead of those of a minute
StepDelayOf_NoMinute(n, whatSpeed) ==
  ToULong(TruncDiv(TruncDiv(1000 * 1000, n), whatSpeed))

\* 60L * 1000L * 1000L / number_of_steps / whatSpeed, stored in an unsigned long
StepDelayOf(n, whatSpeed) ==
  ToULong(TruncDiv(TruncDiv(60 * 1000 * 1000, n), whatSpeed))

\* step_delay / number_of_micro_steps
MicroStepDelayOf(delay, m) == delay \div m

\* mutant: the count left by the call before is added
StepsLeftAtCall_Carry(steps_to_move_arg, old_left) ==
  AbsInt(steps_to_move_arg) + old_left

\* what step() starts its count from
StepsLeftAtCall(steps_to_move_arg, old_left) == AbsInt(steps_to_move_arg)

\* mutant: a count of 0 sets the reverse direction
DirectionAtCall_ZeroReverses(steps_to_move_arg, old_dir) ==
  IF steps_to_move_arg > 0 THEN 1 ELSE 0

\* mutant: a negative count does not reverse the direction
DirectionAtCall_NoReverse(steps_to_move_arg, old_dir) ==
  IF steps_to_move_arg > 0 THEN 1 ELSE old_dir

\* direction after the two ifs at the head of step()
DirectionAtCall(steps_to_move_arg, old_dir) ==
  IF steps_to_move_arg > 0 THEN 1
  ELSE IF steps_to_move_arg < 0 THEN 0
  ELSE old_dir

\* mutant: the loop does not test INTERRUPTED
LoopCondition_NoFlag(l, left, intr) == left > 0

\* the loop condition of step()
LoopCondition(l, left, intr) ==
  IF l = "srm" THEN left > 0 /\ ~intr ELSE left > 0

\* ------------------------------------------------------------------- state
VARIABLES
  \* the object (one motor)
  lib,                  \* which version of the library the program links
  ctor,                 \* which constructor made the object
  pin_count, number_of_steps,
  motor_pin,            \* <<motor_pin_1, ..., motor_pin_5>>
  motor_pwm_pin,        \* <<motor_pwm_pin_1, motor_pwm_pin_2>>
  micro_stepping, number_of_micro_steps,
  step_number, micro_step_number, direction,
  step_delay, micro_step_delay, last_step_time,
  INTERRUPTED,
  \* the platform
  pins,                 \* level last written to each pin by digitalWrite
  duty,                 \* duty last written to each pin by analogWrite
  pwm_freq,             \* argument of the last analogWriteFreq, in units of 100
  clock,                \* what micros() returns now
  fault,                \* the processor trapped (integer division by zero)
  \* the caller inside step()
  pc,                   \* "idle": not in step(); "test": at the while
                        \* condition; "body": inside the loop body
  steps_to_move,        \* the argument of the call in progress
  steps_left,           \* the local of step(); after the return, the count
                        \* the call left unexecuted
  \* history of the call of step() in progress, for stating properties
  \* (cleared when step() returns)
  executed,             \* steps executed by this call so far
  moved,                \* their signed sum (+1 forward, -1 reverse)
  call_start,           \* step_number when step() was called
  call_micro,           \* micro_step_number when step() was called
  flag_at_call,         \* INTERRUPTED when step() was called
  after_flag,           \* steps executed in this call with INTERRUPTED set
  resumed,              \* the call before this one returned with steps left
  emitted,              \* the arguments of stepMotor in this call, in order
  \* history of the outputs
  last_row,             \* last argument of stepMotor, -1 before the first
  last_micro,           \* <<this_step, this_micro_step>> of the last call of
                        \* microStepMotor, << >> before the first
  off_pos,              \* after off() and before the next executed step:
                        \* <<step_number, micro_step_number, direction, number
                        \* of pin writes off() made>>; << >> otherwise
  speed_arg,            \* <<last argument of setSpeed>>, << >> before the
                        \* first call
  \* the sketch that steps forth and back (SpecRoundTrip)
  rt_phase,             \* "off": not that sketch; "pre": before step(k);
                        \* "forth": step(k) called; "back": step(-k) called
  rt_k,                 \* k
  origin, origin_micro, \* step_number, micro_step_number before step(k)
  \* what an observer of the program records (only the specifications that
  \* say so record it; elsewhere these keep their initial values)
  interrupts,           \* calls of interrupt() since the last clear_interrupt()
  since_step,           \* microseconds since last_step_time was set
  elapsed,              \* microseconds since the first step of this call
  late,                 \* a step of this call, not its first, was executed
                        \* more than the interval after the step before
  move_ret              \* what the last call of move() returned, -1 before
                        \* the first

obj == <<lib, ctor, pin_count, number_of_steps, motor_pin, motor_pwm_pin,
         micro_stepping, number_of_micro_steps>>
pos == <<step_number, micro_step_number>>
speed == <<step_delay, micro_step_delay, pwm_freq, speed_arg>>
outputs == <<pins, duty, last_row, last_micro, off_pos>>
hist == <<executed, moved, call_start, call_micro, flag_at_call, after_flag,
          resumed, emitted>>
call == <<steps_to_move, steps_left, hist>>
rt == <<rt_phase, rt_k, origin, origin_micro>>
watch == <<interrupts, since_step, elapsed, late, move_ret>>
vars == <<obj, pos, direction, speed, last_step_time, INTERRUPTED, outputs,
          clock, fault, pc, call, rt, watch>>

\* the interval the loop of step() compares against
ActiveDelay == IF micro_stepping THEN micro_step_delay ELSE step_delay

\* ------------------------------------------------------------ construction
\* the constructors of each version: <<name, pin_count, motor pins, pwm pins,
\* takes the microstepping arguments>>
Constructors(l) ==
  IF l = "pwm" THEN
    { <<"two", 2, <<1, 2, 0, 0, 0>>, <<0, 0>>, FALSE>>,
      <<"two_pwm", 2, <<1, 2, 0, 0, 0>>, CtorPwmPins, TRUE>>,
      <<"four", 4, <<1, 2, 3, 4, 0>>, <<0, 0>>, FALSE>>,
      <<"four_pwm", 2, <<1, 2, 0, 0, 0>>, CtorPwmPins, TRUE>>,
      <<"five", 5, <<1, 2, 3, 4, 5>>, <<0, 0>>, FALSE>> }
  ELSE
    { <<"two", 2, <<1, 2, 0, 0, 0>>, <<0, 0>>, FALSE>>,
      <<"three", 3, <<1, 2, 3, 0, 0>>, <<0, 0>>, FALSE>>,
      <<"four", 4, <<1, 2, 3, 4, 0>>, <<0, 0>>, FALSE>>,
      <<"five", 5, <<1, 2, 3, 4, 5>>, <<0, 0>>, FALSE>> }

\* the object after its constructor, for a library version l, a constructor
\* c, number_of_steps n and the microstepping arguments (ms, m)
Constructed(l, c, n, ms, m) ==
  /\ lib = l
  /\ ctor = c[1]
  /\ pin_count = c[2]
  /\ number_of_steps = n
  /\ motor_pin = c[3]
  /\ motor_pwm_pin = c[4]
  /\ micro_stepping = (c[5] /\ ms)
  /\ number_of_micro_steps = (IF c[5] THEN m ELSE 0)
  /\ step_number = 0
  /\ micro_step_number = 0
  /\ direction = 0
  /\ last_step_time = 0
  /\ step_delay = 0
  /\ micro_step_delay = 0
  /\ INTERRUPTED = FALSE

\* the rest of the program at start-up
Startup ==
  /\ pins = [p \in PinIds |-> LOW]
  /\ duty = [p \in PinIds |-> 0]
  /\ pwm_freq = 0
  /\ clock = 0
  /\ fault = FALSE
  /\ pc = "idle"
  /\ steps_to_move = 0
  /\ steps_left = 0
  /\ executed = 0
  /\ moved = 0
  /\ call_start = 0
  /\ call_micro = 0
  /\ flag_at_call = FALSE
  /\ after_flag = 0
  /\ resumed = FALSE
  /\ emitted = << >>
  /\ last_row = -1
  /\ last_micro = << >>
  /\ off_pos = << >>
  /\ interrupts = 0
  /\ since_step = 0
  /\ elapsed = 0
  /\ late = FALSE
  /\ move_ret = -1
  /\ speed_arg = << >>

\* the microstepping arguments <<micro_stepping, number_of_micro_steps>> the
\* two PWM constructors are called with
MicroArgs == {<<TRUE, 2>>, <<TRUE, 4>>, <<TRUE, 8>>, <<FALSE, 2>>}

Init ==
  /\ \E l \in {"pwm", "srm"} : \E c \in Constructors(l) :
       \E n \in 1 .. MaxSteps : \E a \in MicroArgs :
         Constructed(l, c, n, a[1], a[2])
  /\ Startup
  /\ rt_phase = "off" /\ rt_k = 0 /\ origin = 0 /\ origin_micro = 0

\* ----------------------------------------------------------------- inputs
\* the arguments step() is called with
MoveArgs == -MaxMove .. MaxMove

\* a speed so high that the interval truncates to 0
TooFast == 60 * 1000 * 1000 + 1

\* the arguments setSpeed() is called with on a motor of n steps: 0, a speed
\* too high, for each interval d in 1 .. MaxDelay the speed that gives d,
\* and a negative speed
SpeedFor(n, d) == ((60 * 1000 * 1000) \div n) \div d

SpeedArgs(n) ==
  {0, TooFast, -SpeedFor(n, 1)} \cup {SpeedFor(n, d) : d \in 1 .. MaxDelay}

\* --------------------------------------------------------------- setSpeed
\* The quotient setSpeed stores.  Division by zero is undefined: a build
\* either traps (see SetSpeed) or leaves some quotient in the register; the
\* software and hardware dividers of the supported boards leave 0 or -1.
SetSpeedResults(n, whatSpeed) ==
  IF whatSpeed = 0
    THEN {ToULong(0), ToULong(-1)}
    ELSE {StepDelayOf(n, whatSpeed)}

SetSpeed(whatSpeed) ==
  /\ pc = "idle" /\ ~fault
  /\ speed_arg' = <<whatSpeed>>
  /\ \/ /\ whatSpeed = 0
        /\ fault' = TRUE
        /\ UNCHANGED <<step_delay, micro_step_delay, pwm_freq>>
     \/ /\ \E d \in SetSpeedResults(number_of_steps, whatSpeed) :
             /\ step_delay' = d
             /\ IF lib = "pwm"
                  THEN IF micro_stepping
                         THEN /\ micro_step_delay' =
                                   MicroStepDelayOf(d, number_of_micro_steps)
                              /\ pwm_freq' = whatSpeed
                         ELSE /\ micro_step_delay' = 0
                              /\ UNCHANGED pwm_freq
                  ELSE UNCHANGED <<micro_step_delay, pwm_freq>>
        /\ UNCHANGED fault
  /\ UNCHANGED <<obj, pos, direction, last_step_time, INTERRUPTED, outputs,
                 clock, pc, call, rt, watch>>

\* ------------------------------------------------------------------- step
\* step(n) is called: the head of the function, up to the loop
StepHead(n) ==
  /\ pc = "idle" /\ ~fault
  /\ steps_to_move' = n
  /\ steps_left' = StepsLeftAtCall(n, steps_left)
  /\ direction' = DirectionAtCall(n, direction)
  /\ pc' = "test"
  /\ executed' = 0
  /\ moved' = 0
  /\ call_start' = step_number
  /\ call_micro' = micro_step_number
  /\ flag_at_call' = INTERRUPTED
  /\ after_flag' = 0
  /\ resumed' = (steps_left > 0)
  /\ emitted' = << >>
  /\ elapsed' = 0
  /\ late' = FALSE
  /\ UNCHANGED <<obj, pos, speed, last_step_time, INTERRUPTED, outputs,
                 clock, fault, interrupts, since_step, move_ret>>

StepCall(n) == StepHead(n) /\ UNCHANGED rt

\* step(INT_MIN) in a build that traps on the signed overflow of abs()
StepOverflowTrap(n) ==
  /\ pc = "idle" /\ ~fault
  /\ n = INT_MIN
  /\ fault' = TRUE
  /\ UNCHANGED <<obj, pos, direction, speed, last_step_time, INTERRUPTED,
                 outputs, clock, pc, call, rt, watch>>

\* the while condition is evaluated: enter the body, or return
LoopTest ==
  /\ pc = "test" /\ ~fault
  /\ IF LoopCondition(lib, steps_left, INTERRUPTED)
       THEN pc' = "body" /\ UNCHANGED <<steps_to_move, hist, elapsed, late>>
       ELSE /\ pc' = "idle"
            /\ elapsed' = 0 /\ late' = FALSE
            /\ steps_to_move' = 0
            /\ executed' = 0 /\ moved' = 0
            /\ call_start' = 0 /\ call_micro' = 0
            /\ flag_at_call' = FALSE /\ after_flag' = 0
            /\ resumed' = FALSE
            /\ emitted' = << >>
  /\ UNCHANGED <<obj, pos, direction, speed, last_step_time, INTERRUPTED,
                 outputs, clock, fault, steps_left, rt, interrupts,
                 since_step, move_ret>>

\* one step in full-step mode, taken at time now
FullStep(now) ==
  LET sn == NextStepNumber(direction, step_number, number_of_steps)
      row == RowIndex(lib, pin_count, sn)
  IN /\ last_step_time' = now
     /\ step_number' = sn
     /\ steps_left' = steps_left - 1
     /\ pins' = WriteAll(pins, stepMotor(lib, pin_count, motor_pin, row))
     /\ last_row' = row
     /\ emitted' = Append(emitted, row)
     /\ off_pos' = << >>
     /\ UNCHANGED <<micro_step_number, duty, last_micro>>

\* one microstep, taken at time now
MicroStep(now) ==
  LET p == NextMicroStep(direction, step_number, micro_step_number,
                         number_of_steps, number_of_micro_steps)
      calls == pin_count = 2 \/ pin_count = 4
  IN /\ last_step_time' = now
     /\ step_number' = p[1]
     /\ micro_step_number' = p[2]
     /\ steps_left' = steps_left - 1
     /\ duty' = IF calls
                  THEN WriteAll(duty, microStepPwmWrites(number_of_micro_steps,
                                        motor_pwm_pin, p[1] % 4, p[2]))
                  ELSE duty
     /\ pins' = IF calls
                  THEN WriteAll(pins, microStepPinWrites(number_of_micro_steps,
                                        pin_count, motor_pin, p[1] % 4, p[2]))
                  ELSE pins
     /\ last_micro' = IF calls THEN <<p[1] % 4, p[2]>> ELSE last_micro
     /\ off_pos' = << >>
     /\ UNCHANGED <<last_row, emitted>>

\* the loop body: read micros(), step if the interval has passed
LoopBody ==
  /\ pc = "body" /\ ~fault
  /\ pc' = "test"
  /\ LET now == clock IN
       IF Due(now, last_step_time, ActiveDelay)
         THEN /\ IF lib = "pwm" /\ micro_stepping
                   THEN MicroStep(now)
                   ELSE FullStep(now)
              /\ executed' = executed + 1
              /\ moved' = moved + (IF direction = 1 THEN 1 ELSE -1)
              /\ after_flag' = after_flag + (IF INTERRUPTED THEN 1 ELSE 0)
              /\ late' = (late \/ (executed > 0 /\ since_step > ActiveDelay))
              /\ since_step' = 0
         ELSE UNCHANGED <<pos, last_step_time, steps_left, outputs, executed,
                          moved, after_flag, emitted, late, since_step>>
  /\ UNCHANGED <<obj, direction, speed, INTERRUPTED, clock, fault,
                 steps_to_move, call_start, call_micro, flag_at_call,
                 resumed, rt, interrupts, elapsed, move_ret>>

\* -------------------------------------------------------------------- off
\* mutant: the fifth pin of a 5-wire motor is left as it is
offWrites_FourOfFive(ms, k, mp) ==
  IF ms THEN << >>
  ELSE IF k = 4 \/ k = 5 THEN [i \in 1 .. 4 |-> <<mp[i], LOW>>]
  ELSE << >>

\* mutant: a 2-wire motor gets both its pins written LOW
offWrites_TwoLow(ms, k, mp) ==
  IF ms THEN << >>
  ELSE IF k = 2 \/ k = 4 \/ k = 5 THEN [i \in 1 .. k |-> <<mp[i], LOW>>]
  ELSE << >>

\* off(): the digitalWrite calls it makes, in order
offWrites(ms, k, mp) ==
  IF ms THEN << >>
  ELSE IF k = 2 THEN << >>
  ELSE IF k = 4 \/ k = 5 THEN [i \in 1 .. k |-> <<mp[i], LOW>>]
  ELSE << >>

\* off(): the analogWrite calls it makes, in order
offPwmWrites(ms, pwm) ==
  IF ms THEN << <<pwm[1], 0>>, <<pwm[2], 0>> >> ELSE << >>

\* off() without its history
OffBody ==
  /\ lib = "pwm" /\ pc = "idle" /\ ~fault
  /\ duty' = WriteAll(duty, offPwmWrites(micro_stepping, motor_pwm_pin))
  /\ pins' = WriteAll(pins, offWrites(micro_stepping, pin_count, motor_pin))
  /\ UNCHANGED <<obj, pos, direction, speed, last_step_time, INTERRUPTED,
                 last_row, last_micro, clock, fault, pc, call, rt, watch>>

Off == OffBody /\ UNCHANGED off_pos

\* ---------------------------------------------- interrupt, clear_interrupt
\* mutant: interrupt() toggles the flag
FlagAfterInterrupt_Toggle(intr) == ~intr

\* INTERRUPTED after interrupt()
FlagAfterInterrupt(intr) == TRUE

\* INTERRUPTED after clear_interrupt()
FlagAfterClear(intr) == FALSE

\* interrupt() is called from the button's interrupt handler, at any point
InterruptBody ==
  /\ lib = "srm" /\ ~fault
  /\ INTERRUPTED' = FlagAfterInterrupt(INTERRUPTED)
  /\ UNCHANGED <<obj, pos, direction, speed, last_step_time, outputs, clock,
                 fault, pc, call, rt, since_step, elapsed, late, move_ret>>

Interrupt == InterruptBody /\ UNCHANGED interrupts

\* clear_interrupt() is called by the sketch, between two calls of step()
ClearInterruptBody ==
  /\ lib = "srm" /\ pc = "idle" /\ ~fault
  /\ INTERRUPTED' = FlagAfterClear(INTERRUPTED)
  /\ UNCHANGED <<obj, pos, direction, speed, last_step_time, outputs, clock,
                 fault, pc, call, rt, since_step, elapsed, late, move_ret>>

ClearInterrupt == ClearInterruptBody /\ UNCHANGED interrupts

\* ------------------------------------------------------------------ clock
\* a microsecond passes
TickBody ==
  /\ ~fault
  /\ clock' = (clock + 1) % ULongMod
  /\ UNCHANGED <<obj, pos, direction, speed, last_step_time, INTERRUPTED,
                 outputs, fault, pc, call, rt, interrupts, late, move_ret>>

Tick == TickBody /\ UNCHANGED <<since_step, elapsed>>

\* ---------------------------------------------------------- specification
Next ==
  \/ \E s \in SpeedArgs(number_of_steps) : SetSpeed(s)
  \/ \E n \in MoveArgs : StepCall(n)
  \/ LoopTest
  \/ LoopBody
  \/ Off
  \/ Interrupt
  \/ ClearInterrupt
  \/ Tick

Spec == Init /\ [][Next]_vars

\* ------------------------------------- the sketch that steps forth and back
\* As the one-revolution sketches do: step(k), then step(-k), each run to
\* its return; before that the sketch sets a speed and moves the motor to
\* some position.
InitRoundTrip ==
  /\ \E l \in {"pwm", "srm"} : \E c \in Constructors(l) :
       \E n \in 1 .. MaxSteps : \E a \in MicroArgs :
         Constructed(l, c, n, a[1], a[2])
  /\ Startup
  /\ rt_phase = "pre" /\ rt_k = 0 /\ origin = 0 /\ origin_micro = 0

RTSetSpeed(d) ==
  /\ rt_phase = "pre"
  /\ SetSpeed(SpeedFor(number_of_steps, d))

RTMove(n) ==
  /\ rt_phase = "pre"
  /\ StepCall(n)

RTForth(k) ==
  /\ rt_phase = "pre"
  /\ StepHead(k)
  /\ rt_phase' = "forth"
  /\ rt_k' = k
  /\ origin' = step_number
  /\ origin_micro' = micro_step_number

RTBack ==
  /\ rt_phase = "forth"
  /\ StepHead(-rt_k)
  /\ rt_phase' = "back"
  /\ UNCHANGED <<rt_k, origin, origin_micro>>

NextRoundTrip ==
  \/ \E d \in 1 .. MaxDelay : RTSetSpeed(d)
  \/ \E n \in MoveArgs : RTMove(n)
  \/ \E k \in MoveArgs : RTForth(k)
  \/ RTBack
  \/ LoopTest
  \/ LoopBody
  \/ Tick

SpecRoundTrip == InitRoundTrip /\ [][NextRoundTrip]_vars

\* --------------------------------------------- motors with many steps
\* Full-step motors with up to MaxStepsRows steps per revolution, so that
\* step_number runs past every cycle length (4, 6, 10); the sketch sets one
\* speed and steps.
MaxStepsRows == 11

InitRows ==
  /\ \E l \in {"pwm", "srm"} : \E c \in Constructors(l) :
       \E n \in 1 .. MaxStepsRows :
         ~c[5] /\ Constructed(l, c, n, FALSE, 0)
  /\ Startup
  /\ rt_phase = "off" /\ rt_k = 0 /\ origin = 0 /\ origin_micro = 0

NextRows ==
  \/ SetSpeed(SpeedFor(number_of_steps, 1))
  \/ \E n \in MoveArgs : StepCall(n)
  \/ LoopTest
  \/ LoopBody
  \/ Tick

SpecRows == InitRows /\ [][NextRows]_vars

\* ------------------------------------------------------ whole revolutions
\* As the one-revolution sketches do with a 4-wire or a 5-wire motor: set a
\* speed, then step a whole revolution forward or back; and the 10 steps of
\* one cycle of the 5-wire table.
RevolutionArgs(n) == {n, -n, 10}

InitRevolution ==
  /\ \E l \in {"pwm", "srm"} : \E c \in Constructors(l) :
       \E n \in 1 .. MaxStepsRows :
         c[1] \in {"four", "five"} /\ Constructed(l, c, n, FALSE, 0)
  /\ Startup
  /\ rt_phase = "off" /\ rt_k = 0 /\ origin = 0 /\ origin_micro = 0

NextRevolution ==
  \/ SetSpeed(SpeedFor(number_of_steps, 1))
  \/ \E n \in RevolutionArgs(number_of_steps) : StepCall(n)
  \/ LoopTest
  \/ LoopBody
  \/ Tick

SpecRevolution == InitRevolution /\ [][NextRevolution]_vars

\* ------------------------------------------------- the sketch that uses off
\* As the microstepping sketch does: set a speed, step, switch the motor off
\* between the calls of step().  off() here records what it did.
OffRecorded ==
  /\ OffBody
  /\ off_pos' = <<step_number, micro_step_number, direction,
                  Len(offWrites(micro_stepping, pin_count, motor_pin))
                    + Len(offPwmWrites(micro_stepping, motor_pwm_pin))>>

InitOff ==
  /\ \E c \in Constructors("pwm") : \E n \in 1 .. MaxSteps :
       \E a \in MicroArgs : Constructed("pwm", c, n, a[1], a[2])
  /\ Startup
  /\ rt_phase = "off" /\ rt_k = 0 /\ origin = 0 /\ origin_micro = 0

NextOff ==
  \/ SetSpeed(SpeedFor(number_of_steps, 1))
  \/ \E n \in MoveArgs : StepCall(n)
  \/ LoopTest
  \/ LoopBody
  \/ OffRecorded
  \/ Tick

SpecOff == InitOff /\ [][NextOff]_vars

\* ------------------------------------------------------ setting the speed
\* setSpeed on its own, with the speeds 1 .. MaxRpm and the motors of the
\* sketches (48, 200 and 2048 steps per revolution) besides the small ones.
MaxRpm == 16

SketchSteps == {48, 200, 2048}

InitSpeed ==
  /\ \E l \in {"pwm", "srm"} : \E c \in Constructors(l) :
       \E n \in (1 .. MaxSteps) \cup SketchSteps : \E a \in MicroArgs :
         Constructed(l, c, n, a[1], a[2])
  /\ Startup
  /\ rt_phase = "off" /\ rt_k = 0 /\ origin = 0 /\ origin_micro = 0

NextSpeed == \E s \in 1 .. MaxRpm : SetSpeed(s)

SpecSpeed == InitSpeed /\ [][NextSpeed]_vars

\* ------------------------------------------------ the most negative count
\* step() called with any int, the most negative one included
IntArgs == MoveArgs \cup {INT_MIN}

NextIntMin ==
  \/ SetSpeed(SpeedFor(number_of_steps, 1))
  \/ \E n \in IntArgs : StepCall(n) \/ StepOverflowTrap(n)
  \/ LoopTest
  \/ LoopBody
  \/ Tick

SpecIntMin == Init /\ [][NextIntMin]_vars

\* ------------------------------------------- the interruptible sketch
\* As the interruptible sketch does: the button's handler calls interrupt()
\* (any number of times, at any point), the loop calls clear_interrupt()
\* between its calls of step(); the calls of interrupt() since the last
\* clear_interrupt() are counted, up to MaxInterrupts.
MaxInterrupts == 2

InterruptRecorded ==
  /\ interrupts < MaxInterrupts
  /\ InterruptBody
  /\ interrupts' = interrupts + 1

ClearInterruptRecorded ==
  /\ ClearInterruptBody
  /\ interrupts' = 0

InitInterrupt ==
  /\ \E c \in Constructors("srm") : \E n \in 1 .. MaxSteps :
       Constructed("srm", c, n, FALSE, 0)
  /\ Startup
  /\ rt_phase = "off" /\ rt_k = 0 /\ origin = 0 /\ origin_micro = 0

NextInterrupt ==
  \/ SetSpeed(SpeedFor(number_of_steps, 1))
  \/ \E n \in MoveArgs : StepCall(n)
  \/ LoopTest
  \/ LoopBody
  \/ InterruptRecorded
  \/ ClearInterruptRecorded
  \/ Tick

SpecInterrupt == InitInterrupt /\ [][NextInterrupt]_vars

\* ------------------------------------------------- the loop against time
\* step() running while the time since the last step and since the first
\* step of the call is measured beside the 32-bit clock.  The loop is
\* delayed at will between two readings of micros() (interrupt handlers,
\* a slow Serial), and the sketch waits at will between two calls, up to
\* MaxElapsed microseconds after a step: more than one period of the clock.
MaxElapsed == 5

\* the arguments step() is called with: enough steps to tell a step that
\* came late from one that came on time
PacingArgs == {MaxMove + 1, -(MaxMove + 1), 1}

TickRecorded ==
  /\ since_step < MaxElapsed
  /\ TickBody
  /\ since_step' = since_step + 1
  /\ elapsed' = IF pc # "idle" /\ executed >= 1 THEN elapsed + 1 ELSE elapsed

NextPacing ==
  \/ \E d \in 1 .. MaxDelay : SetSpeed(SpeedFor(number_of_steps, d))
  \/ \E n \in PacingArgs : StepCall(n)
  \/ LoopTest
  \/ LoopBody
  \/ TickRecorded

SpecPacing == Init /\ [][NextPacing]_vars

\* --------------------------------------------------- the polling sketches
\* The sketches that poll: step(n), then while (move()) { delay(2); }.  The
\* library version they were written for is not among the sources; step()
\* and move() are modelled here as the specification describes the
\* non-blocking variant: step() arms the request, move() does the pacing
\* check once and returns the steps remaining.  The number of steps left is
\* a member of the object in this variant.  The steps themselves are those
\* of the blocking loop.
Arm(n) ==
  /\ pc = "idle" /\ ~fault
  /\ steps_to_move' = n
  /\ steps_left' = StepsLeftAtCall(n, steps_left)
  /\ direction' = DirectionAtCall(n, direction)
  /\ executed' = 0
  /\ moved' = 0
  /\ call_start' = step_number
  /\ call_micro' = micro_step_number
  /\ emitted' = << >>
  /\ move_ret' = -1
  /\ UNCHANGED <<obj, pos, speed, last_step_time, INTERRUPTED, outputs,
                 clock, fault, pc, flag_at_call, after_flag, resumed, rt,
                 interrupts, since_step, elapsed, late>>

\* move(): nothing to do, not yet due, or one step
Advance ==
  /\ pc = "idle" /\ ~fault
  /\ LET now == clock IN
       IF steps_left > 0 /\ ActiveDelay > 0
           /\ Due(now, last_step_time, ActiveDelay)
         THEN /\ FullStep(now)
              /\ executed' = executed + 1
              /\ moved' = moved + (IF direction = 1 THEN 1 ELSE -1)
              /\ move_ret' = steps_left - 1
         ELSE /\ move_ret' = steps_left
              /\ UNCHANGED <<pos, last_step_time, steps_left, outputs,
                             executed, moved, emitted>>
  /\ UNCHANGED <<obj, direction, speed, INTERRUPTED, clock, fault, pc,
                 steps_to_move, call_start, call_micro, flag_at_call,
                 after_flag, resumed, rt, interrupts, since_step, elapsed,
                 late>>

\* the sketches construct a four-wire motor
InitNonBlocking ==
  /\ \E l \in {"pwm", "srm"} : \E c \in Constructors(l) :
       \E n \in 1 .. MaxSteps :
         c[1] = "four" /\ Constructed(l, c, n, FALSE, 0)
  /\ Startup
  /\ rt_phase = "off" /\ rt_k = 0 /\ origin = 0 /\ origin_micro = 0

NextNonBlocking ==
  \/ \E d \in 1 .. MaxDelay : SetSpeed(SpeedFor(number_of_steps, d))
  \/ \E n \in MoveArgs : Arm(n)
  \/ Advance
  \/ Tick

SpecNonBlocking == InitNonBlocking /\ [][NextNonBlocking]_vars

\* ------------------------------------------------- the loop left to run
\* step() with nothing in its way: a speed has been set, nobody calls
\* interrupt(), the processor keeps executing the loop and micros() keeps
\* advancing.  An iteration of the loop takes microseconds, and the test of
\* the interval stays true from the moment the interval has passed until
\* the clock has gone once around (2^32 minus the interval, which is at
\* most 60 * 1000 * 1000): some iteration begins and reads micros() in
\* that window, which is the strong fairness of the iteration that steps.
TestDue == LoopTest /\ Due(clock, last_step_time, ActiveDelay)

StepDue == LoopBody /\ executed' = executed + 1

\* a four-wire motor of either version, or a two-wire motor with PWM and
\* half steps
InitLive ==
  /\ \E l \in {"pwm", "srm"} : \E c \in Constructors(l) :
       \E n \in 1 .. MaxSteps :
         c[1] \in {"four", "two_pwm"} /\ Constructed(l, c, n, TRUE, 2)
  /\ Startup
  /\ rt_phase = "off" /\ rt_k = 0 /\ origin = 0 /\ origin_micro = 0

NextLive ==
  \/ \E d \in 1 .. MaxDelay : SetSpeed(SpeedFor(number_of_steps, d))
  \/ \E n \in MoveArgs : StepCall(n)
  \/ LoopTest
  \/ LoopBody
  \/ Tick

SpecLive ==
  /\ InitLive
  /\ [][NextLive]_vars
  /\ WF_vars(LoopTest)
  /\ WF_vars(LoopBody)
  /\ WF_vars(Tick)
  /\ SF_vars(TestDue)
  /\ SF_vars(StepDue)

\* ------------------------------------------ the loop that is interrupted
\* The interruptible sketch with the processor executing the loop of step()
\* (yield() and micros() are calls the compiler cannot see through, so the
\* member INTERRUPTED is read again by every test of the loop condition).
\* Nothing is assumed of the clock: it may stand still for ever, which is
\* an interval that never elapses.
\* the sketch constructs a three-wire motor
InitInterrupted ==
  /\ \E c \in Constructors("srm") : \E n \in 1 .. MaxSteps :
       c[1] = "three" /\ Constructed("srm", c, n, FALSE, 0)
  /\ Startup
  /\ rt_phase = "off" /\ rt_k = 0 /\ origin = 0 /\ origin_micro = 0

NextInterrupted ==
  \/ \E d \in 1 .. MaxDelay : SetSpeed(SpeedFor(number_of_steps, d))
  \/ \E n \in MoveArgs : StepCall(n)
  \/ LoopTest
  \/ LoopBody
  \/ Interrupt
  \/ ClearInterrupt
  \/ Tick

SpecInterrupted ==
  /\ InitInterrupted
  /\ [][NextInterrupted]_vars
  /\ WF_vars(LoopTest)
  /\ WF_vars(LoopBody)

\* ------------------------------------------------ full steps and the pins
\* A motor of either version in full-step mode with everything a sketch
\* does to it: setSpeed, step, off() (recorded) in the version that has it,
\* interrupt() and clear_interrupt() in the version that has them.
\* The motors have few steps, or more steps than the longest table has rows.
PinsSteps == (1 .. MaxSteps) \cup {MaxStepsRows - 1, MaxStepsRows}

InitPins ==
  /\ \E l \in {"pwm", "srm"} : \E c \in Constructors(l) :
       \E n \in PinsSteps : Constructed(l, c, n, FALSE, 2)
  /\ Startup
  /\ rt_phase = "off" /\ rt_k = 0 /\ origin = 0 /\ origin_micro = 0

NextPins ==
  \/ SetSpeed(SpeedFor(number_of_steps, 1))
  \/ \E n \in MoveArgs : StepCall(n)
  \/ LoopTest
  \/ LoopBody
  \/ OffRecorded
  \/ Interrupt
  \/ ClearInterrupt
  \/ Tick

SpecPins == InitPins /\ [][NextPins]_vars

\* ================================================================= claims

\* step() is about to return: it is at the loop condition and the condition
\* is false
AtReturn == pc = "test" /\ ~LoopCondition(lib, steps_left, INTERRUPTED)

\* C1: step_number is in [0, number_of_steps) in every state: after every
\* executed step, between the calls and when step() returns, whatever
\* step(), setSpeed(), off() calls came before.
C1_StepNumberInRange ==
  step_number \in 0 .. number_of_steps - 1

\* a forward step has just wrapped from number_of_steps - 1 to 0
C1_Witness ==
  /\ pc = "test" /\ executed = 1 /\ direction = 1
  /\ number_of_steps = MaxSteps
  /\ call_start = number_of_steps - 1 /\ step_number = 0

\* C2: in full-step mode with a positive interval and the interruption flag
\* clear, when step(n) has run its count down to 0 it has executed exactly
\* |n| steps, all of them in the direction of the sign of n, and
\* step_number = (start + n) mod number_of_steps.
C2_CompletedCallMovesExactlyN ==
  (/\ pc = "test" /\ steps_left = 0
   /\ ~micro_stepping /\ step_delay > 0 /\ ~INTERRUPTED)
  => /\ executed = Abs(steps_to_move)
     /\ moved = steps_to_move
     /\ step_number = (call_start + steps_to_move) % number_of_steps

\* a reverse call of MaxMove steps has completed
C2_Witness ==
  /\ pc = "test" /\ steps_left = 0
  /\ ~micro_stepping /\ step_delay > 0 /\ ~INTERRUPTED
  /\ steps_to_move = -MaxMove /\ executed = MaxMove

\* C3: whenever a step is executed, the clock reading now satisfies
\* now - last_step_time >= the active interval (in unsigned arithmetic), and
\* last_step_time becomes that reading; this holds for every step, the first
\* step of a call included, so that the gate also separates two calls.
C3_StepOnlyWhenDue ==
  [][executed' = executed + 1
       => /\ (clock - last_step_time) % ULongMod >= ActiveDelay
          /\ last_step_time' = clock]_vars

\* a later call waits at its first step for the interval since the last
\* step of an earlier call
C3_Witness ==
  /\ pc = "body" /\ executed = 0 /\ last_row # -1
  /\ ActiveDelay > 0
  /\ (clock - last_step_time) % ULongMod < ActiveDelay
  /\ last_step_time # 0

\* C4 (as claimed): while step() runs with an active interval of 0, no step
\* is executed and the position does not change.
C4_ZeroIntervalNeverAdvances ==
  (pc # "idle" /\ ActiveDelay = 0)
  => /\ executed = 0
     /\ step_number = call_start
     /\ micro_step_number = call_micro

\* C5 (as claimed): after setSpeed(s) with s <= 0 the step interval is 0 and
\* the processor has not trapped on a division by zero.
C5_NonPositiveSpeedGivesZeroDelay ==
  (speed_arg # << >> /\ speed_arg[1] <= 0)
  => (step_delay = 0 /\ ~fault)

\* C6: during a call of step() at most one step is executed with
\* INTERRUPTED set; the steps not executed are left (steps_left is the count
\* minus the executed steps) and step_number is the start position moved by
\* exactly the executed steps.
C6_InterruptStopsWithinOneStep ==
  (lib = "srm" /\ pc # "idle")
  => /\ after_flag <= 1
     /\ (INTERRUPTED /\ pc = "test") => AtReturn
     /\ steps_left = Abs(steps_to_move) - executed
     /\ Abs(moved) = executed
     /\ step_number = (call_start + moved) % number_of_steps

\* step() is about to return, interrupted, with steps left, after the one
\* step that was executed with the flag set
C6_Witness ==
  /\ lib = "srm" /\ AtReturn /\ INTERRUPTED
  /\ steps_left > 0 /\ executed > 0 /\ after_flag = 1

\* C7: a call of step() made with INTERRUPTED set never enters the loop body
\* and changes neither step_number nor last_step_time nor a pin; a step is
\* only executed by a call made with the flag clear.
C7_FlagSetCallMovesNothing ==
  [][/\ (lib = "srm" /\ flag_at_call /\ pc # "idle")
          => /\ pc' # "body"
             /\ UNCHANGED <<step_number, last_step_time, pins>>
     /\ (lib = "srm" /\ executed' = executed + 1) => ~flag_at_call]_vars

\* step(n), n # 0, was called with the flag set and is about to return
\* with nothing executed
C7_Witness ==
  /\ lib = "srm" /\ flag_at_call /\ AtReturn
  /\ steps_to_move # 0 /\ steps_left = Abs(steps_to_move) /\ executed = 0

\* C8: the count a call leaves unexecuted is |n| minus the executed steps,
\* and this holds in every call, also one that follows an interrupted call:
\* the call starts from |m| and nothing of the earlier remainder is added.
C8_RemainderNotCarried ==
  /\ pc # "idle" => steps_left = Abs(steps_to_move) - executed
  /\ AtReturn /\ ~INTERRUPTED => executed = Abs(steps_to_move)

\* a call that follows an interrupted call is about to return, having
\* executed exactly its own count
C8_Witness ==
  /\ resumed /\ AtReturn /\ ~INTERRUPTED
  /\ steps_to_move # 0 /\ executed = Abs(steps_to_move)

\* C9: when step(k) and then step(-k) have returned, step_number is what it
\* was before step(k), and in microstepping mode micro_step_number too.
C9_RoundTrip ==
  (rt_phase = "back" /\ pc = "idle")
  => /\ step_number = origin
     /\ micro_stepping => micro_step_number = origin_micro

\* a microstepping round trip that crossed a whole step has returned
C9_Witness ==
  /\ rt_phase = "back" /\ pc = "idle"
  /\ micro_stepping /\ rt_k = MaxMove
  /\ origin_micro = number_of_micro_steps - 1
  /\ origin = number_of_steps - 1

\* the cycle length of each topology, as the claim gives it
C10_CycleLength ==
  CASE pin_count = 2 -> 4
    [] pin_count = 3 -> 6
    [] pin_count = 4 -> 4
    [] pin_count = 5 -> 10

\* C10: in full-step mode the row passed to stepMotor by the last executed
\* step is step_number mod cycle_length, and lies in [0, cycle_length).
C10_RowIsStepModCycle ==
  (~micro_stepping /\ last_row # -1)
  => /\ last_row = step_number % C10_CycleLength
     /\ last_row \in 0 .. C10_CycleLength - 1
     /\ \A i \in 1 .. pin_count :
          pins[motor_pin[i]] = RowTable(lib, pin_count)[last_row + 1][i]

\* a 5-wire motor has stepped to step_number 10, row 0
C10_Witness ==
  /\ pin_count = 5 /\ step_number = 10 /\ last_row = 0 /\ executed > 0

\* the truth tables as the file headers document them, one string of levels
\* C0 C1 ... per step, in the order of the documented steps
C11_Documented ==
  [k \in 2 .. 5 |->
     CASE k = 2 -> << <<0,1>>, <<1,1>>, <<1,0>>, <<0,0>> >>
       [] k = 3 -> << <<0,0,1>>, <<1,0,1>>, <<1,0,0>>,
                      <<1,1,0>>, <<0,1,0>>, <<0,1,1>> >>
       [] k = 4 -> << <<1,0,1,0>>, <<0,1,1,0>>, <<0,1,0,1>>, <<1,0,0,1>> >>
       [] k = 5 -> << <<0,1,1,0,1>>, <<0,1,0,0,1>>, <<0,1,0,1,1>>,
                      <<0,1,0,1,0>>, <<1,1,0,1,0>>, <<1,0,0,1,0>>,
                      <<1,0,1,1,0>>, <<1,0,1,0,0>>, <<1,0,1,0,1>>,
                      <<0,0,1,0,1>> >>]

\* C11: after stepMotor(row) the motor pins C0, C1, ... hold exactly the
\* levels of the documented table's row (1 = HIGH, 0 = LOW), for every
\* topology and every row, and no other pin has been written.
C11_PinsMatchDocumentedTable ==
  (~micro_stepping /\ last_row # -1)
  => /\ last_row + 1 \in 1 .. Len(C11_Documented[pin_count])
     /\ \A i \in 1 .. pin_count :
          pins[motor_pin[i]] =
            (IF C11_Documented[pin_count][last_row + 1][i] = 1
               THEN HIGH ELSE LOW)
     /\ \A p \in PinIds \ {motor_pin[i] : i \in 1 .. pin_count} :
          pins[p] = LOW

\* a 3-wire motor has been driven to the last row of its table, 011
C11_Witness ==
  /\ pin_count = 3 /\ last_row = 5 /\ executed > 0
  /\ pins[1] = LOW /\ pins[2] = HIGH /\ pins[3] = HIGH

\* how many times row r occurs in the sequence of rows e
C12_Count(e, r) == Cardinality({i \in 1 .. Len(e) : e[i] = r})

\* C12: a 4-wire motor whose number_of_steps N is a multiple of 4: when
\* step(N) has run its count down to 0, step_number is back at its value at
\* the call, each of the 4 rows has been emitted exactly N / 4 times, and
\* every emitted row is the successor mod 4 of the row emitted before it
\* (the first one of the row of the starting position).
C12_RevolutionVisitsRowsEvenly ==
  (/\ pin_count = 4 /\ number_of_steps % 4 = 0
   /\ pc = "test" /\ steps_left = 0 /\ steps_to_move = number_of_steps)
  => /\ step_number = call_start
     /\ Len(emitted) = number_of_steps
     /\ \A r \in 0 .. 3 : C12_Count(emitted, r) = number_of_steps \div 4
     /\ emitted[1] = (call_start + 1) % 4
     /\ \A i \in 1 .. Len(emitted) - 1 :
          emitted[i + 1] = (emitted[i] + 1) % 4

\* a revolution of 8 steps that did not start at step_number 0 has completed
C12_Witness ==
  /\ pin_count = 4 /\ number_of_steps = 8
  /\ pc = "test" /\ steps_left = 0 /\ steps_to_move = 8
  /\ call_start = 2 /\ Len(emitted) = 8

\* C13 (as claimed): a 5-wire motor at step_number 0: when step(10) has run
\* its count down to 0, the rows emitted are 1, 2, ..., 9, 0 in that order.
C13_FiveWireTenSteps ==
  (/\ pin_count = 5 /\ pc = "test" /\ steps_left = 0
   /\ steps_to_move = 10 /\ call_start = 0)
  => emitted = <<1, 2, 3, 4, 5, 6, 7, 8, 9, 0>>

\* C14 (as claimed): off() changes none of step_number, direction and
\* micro_step_number, and the first full step executed after off() emits the
\* row (p + 1) mod cycle_length (forward) or (p - 1) mod cycle_length
\* (reverse), p being step_number before off().
C14_OffKeepsPhase ==
  [][/\ (off_pos' # << >> /\ off_pos' # off_pos)
          => UNCHANGED <<step_number, direction, micro_step_number>>
     /\ (off_pos # << >> /\ ~micro_stepping /\ executed' = executed + 1)
          => last_row' = (off_pos[1] + (IF direction = 1 THEN 1 ELSE -1))
                           % C10_CycleLength]_vars

\* C15: after off(), until the next step is executed: the four pins of a
\* motor made by the 4-wire constructor are LOW, the five pins of a 5-wire
\* motor are LOW, and the duty of both PWM pins of a motor made in
\* microstepping mode is 0.
C15_OffDeenergizes ==
  off_pos # << >>
  => /\ ctor = "four" => \A i \in 1 .. 4 : pins[motor_pin[i]] = LOW
     /\ ctor = "five" => \A i \in 1 .. 5 : pins[motor_pin[i]] = LOW
     /\ (ctor \in {"two_pwm", "four_pwm"} /\ micro_stepping)
          => \A i \in 1 .. 2 : duty[motor_pwm_pin[i]] = 0

\* a 5-wire motor that has been stepped is off, by five writes
C15_Witness ==
  /\ ctor = "five" /\ last_row # -1 /\ off_pos # << >> /\ off_pos[4] = 5
  /\ step_number # 0

\* C16: off() on a motor made by the 2-wire constructor (no PWM pins) makes
\* no pin write and changes nothing of the object or the pins.
C16_OffTwoWireIsNoOp ==
  [][(ctor = "two" /\ off_pos' # << >> /\ off_pos' # off_pos)
       => /\ off_pos'[4] = 0
          /\ UNCHANGED <<obj, pos, direction, speed, last_step_time,
                         INTERRUPTED, pins, duty, last_row, last_micro,
                         clock, fault, pc, call>>]_vars

\* off() has been called on a 2-wire motor whose pins are driven; they
\* still are
C16_Witness ==
  /\ ctor = "two" /\ off_pos # << >> /\ off_pos[4] = 0
  /\ pins[motor_pin[1]] = HIGH /\ pins[motor_pin[2]] = HIGH

\* C17: after setSpeed(rpm) with rpm > 0 on a motor of N > 0 steps,
\* step_delay = (60000000 div N) div rpm, which is floor(60000000 / (N * rpm));
\* N = 2048 and rpm = 15 give 1953.
C17_StepDelayFormula ==
  (speed_arg # << >> /\ speed_arg[1] > 0 /\ number_of_steps > 0)
  => LET rpm == speed_arg[1] IN
     /\ step_delay = (60000000 \div number_of_steps) \div rpm
     /\ step_delay = 60000000 \div (number_of_steps * rpm)
     /\ (number_of_steps = 2048 /\ rpm = 15) => step_delay = 1953

\* setSpeed(15) has been called on the motor of 2048 steps
C17_Witness ==
  /\ number_of_steps = 2048 /\ speed_arg = <<15>> /\ step_delay = 1953

\* C18: step(0) changes nothing: neither the call itself nor any step of
\* its execution changes direction, step_number, micro_step_number or
\* last_step_time, or writes a pin or a duty; the loop body is not entered.
C18_StepZeroChangesNothing ==
  [][((pc = "idle" /\ pc' = "test" /\ steps_to_move' = 0)
        \/ (pc # "idle" /\ steps_to_move = 0))
       => /\ UNCHANGED <<direction, step_number, micro_step_number,
                         last_step_time, pins, duty, last_row, last_micro>>
          /\ pc' # "body"]_vars

\* step(0) is about to return on a motor that was last stepped forward and
\* is not at step_number 0
C18_Witness ==
  /\ pc = "test" /\ steps_to_move = 0 /\ steps_left = 0
  /\ direction = 1 /\ step_number # 0 /\ last_step_time # 0

\* C19 (as claimed): the count of steps still to execute is never
\* negative, and a call of step(n) that has not yet executed a step has
\* |n| steps to execute, for every int n, INT_MIN included.
C19_StepsLeftNeverNegative ==
  /\ steps_left >= 0
  /\ (pc # "idle" /\ executed = 0) => steps_left = Abs(steps_to_move)

\* C20: in microstepping mode with number_of_micro_steps M in {2, 4, 8},
\* micro_step_number is in [0, M) in every state, and the last call of
\* microStepMotor got a step index in [0, 4) and a microstep index in
\* [0, M): an entry of the table for M.
C20_MicroIndicesInRange ==
  (micro_stepping /\ number_of_micro_steps \in {2, 4, 8})
  => /\ micro_step_number \in 0 .. number_of_micro_steps - 1
     /\ last_micro # << >>
          => /\ last_micro[1] \in 0 .. 3
             /\ last_micro[2] \in 0 .. number_of_micro_steps - 1
             /\ Len(MicroTable(number_of_micro_steps)) = 4
             /\ Len(MicroTable(number_of_micro_steps)[last_micro[1] + 1])
                  = number_of_micro_steps

\* a reverse microstep out of <<0, 0>> has wrapped both indices to the last
\* microstep of the last step, with M = 8
C20_Witness ==
  /\ micro_stepping /\ number_of_micro_steps = 8
  /\ pc = "test" /\ executed = 1 /\ direction = 0
  /\ call_start = 0 /\ call_micro = 0
  /\ micro_step_number = 7 /\ step_number = number_of_steps - 1
  /\ last_micro = <<step_number % 4, 7>>

\* C21: a microstep of a motor made by the 2-wire + PWM constructor leaves
\* PWM pin i at duty |v_i| * PWMRANGE / 100 and direction pin i HIGH iff
\* v_i > 0, (v_1, v_2) being the table entry for (step_number mod 4,
\* micro_step_number) after the step; every duty is in [0, PWMRANGE]; at 8
\* microsteps the entry (0, 0) is (0, 100): duties 0 and PWMRANGE.
C21_TwoWireMicrostepOutputs ==
  [][(ctor = "two_pwm" /\ micro_stepping /\ executed' = executed + 1)
       => LET v == MicroTable(number_of_micro_steps)
                     [(step_number' % 4) + 1][micro_step_number' + 1]
          IN /\ \A i \in 1 .. 2 :
                  /\ duty'[motor_pwm_pin[i]] = (Abs(v[i]) * PWMRANGE) \div 100
                  /\ duty'[motor_pwm_pin[i]] \in 0 .. PWMRANGE
                  /\ pins'[motor_pin[i]] = (IF v[i] > 0 THEN HIGH ELSE LOW)
             /\ (number_of_micro_steps = 8 /\ step_number' % 4 = 0
                   /\ micro_step_number' = 0)
                  => /\ v = <<0, 100>>
                     /\ duty'[motor_pwm_pin[1]] = 0
                     /\ duty'[motor_pwm_pin[2]] = PWMRANGE]_vars

\* a microstep has brought a 2-wire motor with 8 microsteps to quadrant 0,
\* microstep 0: duties 0 and PWMRANGE
C21_Witness ==
  /\ ctor = "two_pwm" /\ micro_stepping /\ number_of_micro_steps = 8
  /\ pc = "test" /\ executed > 0 /\ last_micro = <<0, 0>>
  /\ duty[motor_pwm_pin[1]] = 0 /\ duty[motor_pwm_pin[2]] = PWMRANGE
  /\ pins[motor_pin[1]] = LOW /\ pins[motor_pin[2]] = HIGH

\* C22 (as claimed): after a microstep of a motor made by the 4-wire + PWM
\* constructor with the pins 1, 2, 3, 4, pins 1 and 2 hold the sign of coil 1
\* and its complement, pins 3 and 4 the sign of coil 2 and its complement.
C22_FourWireMicrostepPairs ==
  (ctor = "four_pwm" /\ micro_stepping /\ last_micro # << >>
     /\ pc # "idle" /\ executed > 0)
  => LET v == MicroTable(number_of_micro_steps)
                [last_micro[1] + 1][last_micro[2] + 1]
     IN /\ pins[1] = (IF v[1] > 0 THEN HIGH ELSE LOW)
        /\ pins[2] = (IF v[1] > 0 THEN LOW ELSE HIGH)
        /\ pins[3] = (IF v[2] > 0 THEN HIGH ELSE LOW)
        /\ pins[4] = (IF v[2] > 0 THEN LOW ELSE HIGH)

\* C23: the table of the motor's number_of_micro_steps has the
\* quarter-cycle symmetry: the entry of the next quadrant is (b, -a) where
\* (a, b) is the entry of this quadrant at the same microstep, so the entry
\* two quadrants on is (-a, -b); every value is in [-100, 100].
C23_TableQuarterSymmetry ==
  (micro_stepping /\ number_of_micro_steps \in {2, 4, 8})
  => LET t == MicroTable(number_of_micro_steps) IN
     \A q \in 0 .. 3 : \A k \in 0 .. number_of_micro_steps - 1 :
       LET e == t[q + 1][k + 1] IN
       /\ t[((q + 1) % 4) + 1][k + 1] = <<e[2], -e[1]>>
       /\ t[((q + 2) % 4) + 1][k + 1] = <<-e[1], -e[2]>>
       /\ e[1] \in -100 .. 100 /\ e[2] \in -100 .. 100

\* a motor with 4 microsteps has read the table in its second quadrant
C23_Witness ==
  /\ micro_stepping /\ number_of_micro_steps = 4
  /\ last_micro # << >> /\ last_micro[1] = 1 /\ last_micro[2] = 1

\* C24: interrupt() sets the flag; a call of interrupt() made while the
\* flag is set by an earlier one leaves the whole state of the program as
\* it is; and clear_interrupt() clears the flag however many calls of
\* interrupt() came before it.
C24_InterruptIdempotent ==
  [][/\ INTERRUPTED \in BOOLEAN
     /\ (interrupts' = interrupts + 1) => INTERRUPTED'
     /\ (interrupts' = interrupts + 1 /\ interrupts >= 1)
          => UNCHANGED <<obj, pos, direction, speed, last_step_time,
                         INTERRUPTED, outputs, clock, fault, pc, call>>
     /\ (interrupts' = 0 /\ interrupts >= 1) => ~INTERRUPTED']_vars

\* interrupt() has been called twice while step() runs, and not cleared
C24_Witness ==
  /\ interrupts = 2 /\ INTERRUPTED /\ pc # "idle" /\ steps_left > 0

\* C25 as stated: a late poll catches up, so that when a step has just been
\* executed k intervals after the first step of the call, it is step
\* number min(k, |n| - 1) after the first.
C25_LatePollCatchesUp ==
  (/\ pc = "test" /\ ActiveDelay > 0 /\ executed >= 1 /\ since_step = 0
   /\ elapsed % ActiveDelay = 0)
    => LET k == elapsed \div ActiveDelay
           n == Abs(steps_to_move) - 1
       IN executed - 1 = IF k < n THEN k ELSE n

\* C25, amended: in the time since the first step of a call at most one
\* further step per interval has been executed; exactly one per interval
\* when no step came late, and fewer when one did (the interval restarts at
\* the time of the late step).
C25_OneStepPerInterval ==
  (pc # "idle" /\ ActiveDelay > 0 /\ executed >= 1)
    => LET further == executed - 1
           until_last == elapsed - since_step
       IN /\ further * ActiveDelay <= until_last
          /\ ~late => further * ActiveDelay = until_last
          /\ late => further * ActiveDelay < until_last

\* a call of three steps has executed them all, one of them late
C25_Witness ==
  /\ pc = "test" /\ ActiveDelay > 0 /\ late
  /\ executed = 3 /\ steps_left = 0
  /\ elapsed - since_step = 3 * ActiveDelay

C27_StepTerminates ==
  /\ [][(pc # "idle" /\ pc' # "idle") => steps_left' <= steps_left]_vars
  /\ (pc # "idle" /\ ActiveDelay > 0 /\ ~INTERRUPTED)
       ~> (AtReturn /\ steps_left = 0 /\ executed = Abs(steps_to_move))
  /\ AtReturn ~> (pc = "idle")

\* a call of MaxMove steps at the longest interval is about to return,
\* its last step taken after the clock had wrapped
C27_Witness ==
  /\ AtReturn /\ ~INTERRUPTED /\ ActiveDelay = MaxDelay
  /\ executed = MaxMove /\ steps_left = 0
  /\ last_step_time < MaxDelay

\* C28: in microstepping mode the combined position step_number * M +
\* micro_step_number moves by one modulo N * M with every microstep, forward
\* or in reverse, step_number changing exactly when micro_step_number wraps;
\* and when a call of step(n) has executed its |n| microsteps the combined
\* position is that at the call plus n, modulo N * M.
C28_Combined(sn, mn) == sn * number_of_micro_steps + mn

C28_MicroPositionCounts ==
  /\ []((lib = "pwm" /\ micro_stepping /\ AtReturn /\ steps_left = 0)
          => C28_Combined(step_number, micro_step_number)
               = (C28_Combined(call_start, call_micro) + steps_to_move)
                   % (number_of_steps * number_of_micro_steps))
  /\ [][(lib = "pwm" /\ micro_stepping /\ executed' = executed + 1)
          => LET d == IF direction = 1 THEN 1 ELSE -1
                 wraps == IF direction = 1
                            THEN micro_step_number = number_of_micro_steps - 1
                            ELSE micro_step_number = 0
             IN /\ C28_Combined(step_number', micro_step_number')
                     = (C28_Combined(step_number, micro_step_number) + d)
                         % (number_of_steps * number_of_micro_steps)
                /\ micro_step_number'
                     = (micro_step_number + d) % number_of_micro_steps
                /\ step_number' = IF wraps
                                    THEN (step_number + d) % number_of_steps
                                    ELSE step_number]_vars

\* step(-MaxMove) from position (0, 0) at half steps has returned: the
\* first microstep took a whole step back, around the revolution
C28_Witness ==
  /\ lib = "pwm" /\ micro_stepping /\ AtReturn /\ steps_left = 0
  /\ number_of_micro_steps = 2 /\ number_of_steps >= 2
  /\ steps_to_move = -MaxMove /\ executed = MaxMove
  /\ call_start = 0 /\ call_micro = 0
  /\ step_number = number_of_steps - 1

\* C29 as stated: whatever the true time since the last step, the loop
\* body steps exactly when that time has reached the interval.
C29_StepsWhenTrulyElapsed ==
  [][(pc = "body" /\ pc' = "test" /\ ActiveDelay > 0)
      => ((executed' = executed + 1) <=> (since_step >= ActiveDelay))]_vars

\* C29, amended: the clock is the time of the last step plus the true time
\* since, modulo the range of unsigned long; the loop body never steps
\* before the true time since the last step has reached the interval, and
\* while that time is less than one period of the clock it steps as soon as
\* the interval is reached, wherever the clock has wrapped in between.
C29_RolloverSafeWithinOnePeriod ==
  /\ [](clock = (last_step_time + since_step) % ULongMod)
  /\ [][(pc = "body" /\ pc' = "test" /\ ActiveDelay > 0)
          => /\ (executed' = executed + 1) => (since_step >= ActiveDelay)
             /\ (since_step < ULongMod)
                  => ((executed' = executed + 1)
                        <=> (since_step >= ActiveDelay))
             /\ (executed' = executed + 1) => (last_step_time' = clock)]_vars

\* the second step of a call has been taken exactly one interval after the
\* first, at a time smaller than the interval: the clock wrapped in between
C29_Witness ==
  /\ pc = "test" /\ ActiveDelay > 0 /\ executed = 2 /\ ~late
  /\ since_step = 0 /\ elapsed = ActiveDelay
  /\ last_step_time = clock /\ clock < ActiveDelay

\* C30: within a call in full-step mode every step after the first emits
\* the row that follows the row of the step before it cyclically: the next
\* row of the table going forward, the previous one in reverse, whatever
\* number_of_steps is.
C30_RowsFollowCyclically ==
  [][(~micro_stepping /\ executed >= 1 /\ executed' = executed + 1)
      => last_row' = (last_row + (IF direction = 1 THEN 1 ELSE -1))
                       % C10_CycleLength]_vars

\* C31: when the flag is set while step() runs, step() returns, whether
\* or not the interval ever elapses again; and from the setting of the flag
\* to the return the flag stays set.
C31_InterruptedStepReturns ==
  /\ [][(pc # "idle" /\ INTERRUPTED) => INTERRUPTED']_vars
  /\ (pc # "idle" /\ INTERRUPTED) ~> (pc = "idle")

\* a call interrupted after its first step is about to return with a step
\* left, while the interval has not elapsed since that step
C31_Witness ==
  /\ AtReturn /\ INTERRUPTED /\ ~flag_at_call
  /\ steps_left > 0 /\ executed = 1
  /\ ActiveDelay > 0 /\ ~Due(clock, last_step_time, ActiveDelay)

C33_PairEqual ==
  \/ pins[motor_pin[1]] = pins[motor_pin[2]]
  \/ pins[motor_pin[3]] = pins[motor_pin[4]]

C34_Change ==
  << <<2, LOW>>, <<1, HIGH>>, <<3, LOW>>, <<2, HIGH>>, <<1, LOW>>, <<3, HIGH>> >>

\* the pins in which rows a and b of table t differ
C34_Differ(t, a, b) == {i \in 1 .. Len(t[1]) : t[a + 1][i] # t[b + 1][i]}

\* C34: for a 2-wire, 3-wire or 5-wire motor, each row of its table differs
\* from the cyclically next row in the level of exactly one pin; in the
\* 3-wire table the pin that changes into each step, and its new level, are
\* those of the documented change column, and no row is 000 or 111; and a
\* step of the motor from a row to a cyclically adjacent row changes the
\* level of exactly one motor pin.
C34_OnePinPerStep ==
  /\ [](pin_count \in {2, 3, 5}
          => LET t == RowTable(lib, pin_count)
                 c == Len(t)
             IN /\ c = C10_CycleLength
                /\ \A r \in 0 .. c - 1 :
                     Cardinality(C34_Differ(t, r, (r + 1) % c)) = 1
                /\ pin_count = 3
                     => \A r \in 0 .. c - 1 :
                          /\ C34_Differ(t, (r - 1) % c, r)
                               = {C34_Change[r + 1][1]}
                          /\ t[r + 1][C34_Change[r + 1][1]]
                               = C34_Change[r + 1][2]
                          /\ t[r + 1] # <<LOW, LOW, LOW>>
                          /\ t[r + 1] # <<HIGH, HIGH, HIGH>>)
  /\ [][(/\ pin_count \in {2, 3, 5} /\ ~micro_stepping
          /\ executed' = executed + 1 /\ last_row # -1
          /\ last_row' \in {(last_row + 1) % C10_CycleLength,
                            (last_row - 1) % C10_CycleLength})
          => Cardinality({i \in 1 .. pin_count :
                            pins'[motor_pin[i]] # pins[motor_pin[i]]}) = 1]_vars

\* a 3-wire motor has stepped forward from the last row of its table to
\* row 0: C1 has gone LOW
C34_Witness ==
  /\ pin_count = 3 /\ direction = 1 /\ emitted = <<5, 0>>
  /\ step_number = 6 /\ last_row = 0
  /\ pins[motor_pin[1]] = LOW /\ pins[motor_pin[2]] = LOW
  /\ pins[motor_pin[3]] = HIGH

=============================================================================
